---- MODULE Spec2Model ----
(***************************************************************************)
(* XiPrtScr (main.pyw): the XInput edge-event translator and dispatcher    *)
(* (class XInput) and the pin-aware bounded screenshot history (class App, *)
(* a collections.deque with maxlen plus deque_append_with_predicate).      *)
(*                                                                         *)
(* Everything runs on the Tk main thread: a menu command or a timer        *)
(* callback runs to completion before the next one starts.  One call of    *)
(* XInput.update() is split into its three statements (poll,               *)
(* __update_states, __handle_events) so that the queue between them can be *)
(* observed; pc names the statement update() is at, and user commands are  *)
(* taken only while no callback is running (pc = "idle").                  *)
(*                                                                         *)
(* The one exception is Save all, which calls self._root.update() inside    *)
(* its loop: timer callbacks run there, menu commands do not (the progress *)
(* window holds the grab).                                                 *)
(*                                                                         *)
(* Time is counted in units of 0.05 s and moves on between callbacks only: *)
(* a callback takes far less than one unit.  The image grab, the clipboard *)
(* and the redraw are taken to succeed, so a handler returns normally.     *)
(***************************************************************************)
EXTENDS Integers, Sequences, FiniteSets

\* ---------------------------------------------------------------- bounds
\* Packet numbers the device reports are drawn from 0..MaxPacket.
MaxPacket == 2
\* ImageComposite objects created in one run (object identities 1..MaxItems).
MaxItems == 4
\* Largest number of images one Grab / Load files / Load dir command yields.
MaxBatch == 2
\* Largest limit typed into the "Collect limit..." dialog.
MaxLimit == 3
\* Largest |n| typed into the "Rotate by..." dialog.
MaxRotate == 2
\* Largest cooldown (in 0.05 s units) typed into the "XInput cooldown..." dialog.
MaxCooldown == 3

\* ------------------------------------------------------ program constants
\* Constants.LIMIT
LIMIT == 256
\* Constants.DELAY = 0.15 s
DELAY == 3
\* Constants.FRAMETIME = 100 ms, the delay of the polling timer
FRAMETIME == 2
\* minvalue of the "Collect limit..." dialog
MinLimit == 1
\* maxvalue of the "Collect limit..." dialog
DialogMaxLimit == 256
\* minvalue=0.1 s of the "XInput cooldown..." dialog
MinCooldown == 2
\* Full travel of a trigger (c_ubyte maximum), tested at lines 127, 132, 592.
FullTrigger == 255

\* bLeftTrigger / bRightTrigger are c_ubyte: the extremes and their neighbours.
TriggerValues == {0, 1, FullTrigger - 1, FullTrigger}

\* ------------------------------------------------------------- XInput data
\* XInput.MappedStates, the fields the program reads.
MappedStates == [PacketNumber : 0..MaxPacket,
                 LeftTrigger : TriggerValues,
                 RightTrigger : TriggerValues]

\* MappedStates() as it would be if the triggers defaulted to full travel.
DefaultStates_FullTriggers ==
    [PacketNumber |-> 0, LeftTrigger |-> FullTrigger, RightTrigger |-> FullTrigger]

\* MappedStates(): every field at its default.
DefaultStates == [PacketNumber |-> 0, LeftTrigger |-> 0, RightTrigger |-> 0]

\* XInput.Event
Event(type, key) == [type |-> type, key |-> key]

EventTypes == {"press", "release", "any"}
EventKeys == {"LeftTrigger", "RightTrigger", "Any"}

\* Event.__eq__ as it would be if only the type had a wildcard.
EventEq_NoKeyWildcard(self, other) ==
    /\ (self.type = other.type \/ self.type = "any" \/ other.type = "any")
    /\ self.key = other.key

\* XInput.Event.__eq__
EventEq(self, other) ==
    /\ (self.type = other.type \/ self.type = "any" \/ other.type = "any")
    /\ (self.key = other.key \/ self.key = "Any" \/ other.key = "Any")

\* The two bindings App.__init__ hands to XInput(...); the handler of both is
\* App._xinput_ltrt_command_action_take.
AppCallbacks == << Event("press", "LeftTrigger"), Event("press", "RightTrigger") >>

\* ------------------------------------------------------ collections.deque
\* deque(iterable, maxlen) as it would be if it kept the first maxlen elements.
DequeNew_KeepFirst(iterable, maxlen) ==
    IF Len(iterable) > maxlen THEN SubSeq(iterable, 1, maxlen) ELSE iterable

\* deque(iterable, maxlen): keeps the last maxlen elements of the iterable.
DequeNew(iterable, maxlen) ==
    IF Len(iterable) > maxlen
    THEN SubSeq(iterable, Len(iterable) - maxlen + 1, Len(iterable))
    ELSE iterable

\* deque.append on a deque with maxlen: a full deque discards its left end.
DequeAppend(dq, maxlen, object) ==
    IF maxlen = 0 THEN dq
    ELSE IF Len(dq) = maxlen THEN Append(Tail(dq), object)
    ELSE Append(dq, object)

\* Position of the first element equal to the object (ImageComposite defines no
\* __eq__: equality is identity), 0 when there is none.
IndexOf(dq, object) ==
    IF \E i \in 1..Len(dq) : dq[i].id = object.id
    THEN CHOOSE i \in 1..Len(dq) :
            /\ dq[i].id = object.id
            /\ \A j \in 1..(i - 1) : dq[j].id # object.id
    ELSE 0

\* The sequence without its element at position i.
RemoveAt(dq, i) == SubSeq(dq, 1, i - 1) \o SubSeq(dq, i + 1, Len(dq))

\* deque.remove(object): removes the first occurrence.
DequeRemove(dq, object) ==
    IF IndexOf(dq, object) = 0 THEN dq ELSE RemoveAt(dq, IndexOf(dq, object))

\* deque.rotate as it would be if it turned the other way.
DequeRotate_Reverse(dq, n) ==
    IF Len(dq) = 0 THEN dq
    ELSE [i \in 1..Len(dq) |-> dq[((i - 1 + n) % Len(dq)) + 1]]

\* deque.rotate as it would be if the sign of n were ignored.
DequeRotate_Abs(dq, n) ==
    IF Len(dq) = 0 THEN dq
    ELSE [i \in 1..Len(dq) |-> dq[((i - 1 - (IF n < 0 THEN -n ELSE n)) % Len(dq)) + 1]]

\* deque.rotate(n): n steps to the right, to the left when n is negative.
DequeRotate(dq, n) ==
    IF Len(dq) = 0 THEN dq
    ELSE [i \in 1..Len(dq) |-> dq[((i - 1 - n) % Len(dq)) + 1]]

\* ------------------------------------------------------------ the history
\* ImageComposite(image, filename): pinnation is a fresh BooleanVar (False).
ImageComposite(id) == [id |-> id, pinned |-> FALSE]

\* lambda image: image.pinnation.get()
Pinnation(image) == image.pinned

\* FirstUnpinned as it would be if the loop ran over reversed(dq).
FirstUnpinned_FromRight(dq) ==
    IF \E i \in 1..Len(dq) : ~Pinnation(dq[i])
    THEN CHOOSE i \in 1..Len(dq) :
            /\ ~Pinnation(dq[i])
            /\ \A j \in (i + 1)..Len(dq) : Pinnation(dq[j])
    ELSE 0

\* The for loop of deque_append_with_predicate: position of the first object
\* the predicate rejects, 0 when the loop ends without a break.
FirstUnpinned(dq) ==
    IF \E i \in 1..Len(dq) : ~Pinnation(dq[i])
    THEN CHOOSE i \in 1..Len(dq) :
            /\ ~Pinnation(dq[i])
            /\ \A j \in 1..(i - 1) : Pinnation(dq[j])
    ELSE 0

\* deque_append_with_predicate as it would be if a full deque took the else
\* branch of the loop whatever it holds (the new object is dropped).
deque_append_with_predicate_DropWhenFull(dq, maxlen, object) ==
    IF Len(dq) = maxlen THEN dq ELSE DequeAppend(dq, maxlen, object)

\* deque_append_with_predicate as the plain dq.append(object) it replaced
\* (the commented-out line 602).
deque_append_with_predicate_Plain(dq, maxlen, object) ==
    DequeAppend(dq, maxlen, object)

\* App.deque_append_with_predicate(dq, object, predicate)
deque_append_with_predicate(dq, maxlen, object) ==
    IF Len(dq) = maxlen
    THEN IF FirstUnpinned(dq) = 0
         THEN dq
         ELSE DequeAppend(DequeRemove(dq, dq[FirstUnpinned(dq)]), maxlen, object)
    ELSE DequeAppend(dq, maxlen, object)

\* deque_extend_with_predicate as the plain dq.extend(...) it replaced (the
\* commented-out line 611).
deque_extend_with_predicate_Plain(dq, maxlen, iter) ==
    DequeNew(dq \o iter, maxlen)

\* App.deque_extend_with_predicate(dq, iter, predicate)
RECURSIVE deque_extend_with_predicate(_, _, _)
deque_extend_with_predicate(dq, maxlen, iter) ==
    IF iter = << >> THEN dq
    ELSE deque_extend_with_predicate(
            deque_append_with_predicate(dq, maxlen, Head(iter)), maxlen, Tail(iter))

\* PinnedOnly as it would be with the test inverted (if not pinnation.get()).
PinnedOnly_Unpinned(dq) == SelectSeq(dq, LAMBDA image : ~Pinnation(image))

\* image for image in self._images if image.pinnation.get()
RECURSIVE PinnedOnly(_)
PinnedOnly(dq) ==
    IF dq = << >> THEN << >>
    ELSE IF Pinnation(Head(dq)) THEN << Head(dq) >> \o PinnedOnly(Tail(dq))
    ELSE PinnedOnly(Tail(dq))

\* simpledialog.askinteger(minvalue, maxvalue): << >> is None (cancelled),
\* << v >> an accepted value; the dialog accepts nothing outside the range.
AskInteger(minvalue, maxvalue) ==
    {<< >>} \cup {<< v >> : v \in minvalue..maxvalue}

\* What the user may type into the "Collect limit..." dialog: small limits,
\* the two ends of the accepted range and their outer neighbours.
TypedLimits ==
    ((MinLimit - 1)..MaxLimit) \cup {DialogMaxLimit, DialogMaxLimit + 1}

\* The OK presses of one "Collect limit..." dialog: each entry is a typed
\* value; the dialog stays open after a refused entry, so a second entry
\* follows a refused one only. A sequence without accepted entry ends in Cancel.
LimitEntries ==
    {<< >>} \cup {<< v >> : v \in TypedLimits}
            \cup {<< v, w >> : v \in {MinLimit - 1, DialogMaxLimit + 1},
                               w \in TypedLimits}

\* askinteger as it would be without the range test of validate().
AskIntegerEntries_Unvalidated(entries, minvalue, maxvalue) ==
    IF entries = << >> THEN << >> ELSE << entries[1] >>

\* simpledialog.askinteger(minvalue, maxvalue) for the given OK presses:
\* _QueryDialog.validate refuses an entry outside minvalue..maxvalue with a
\* warning and keeps the dialog open; the result is the first accepted entry,
\* None (<< >>) when the dialog is cancelled without one.
AskIntegerEntries(entries, minvalue, maxvalue) ==
    IF \E i \in 1..Len(entries) : entries[i] \in minvalue..maxvalue
    THEN << entries[CHOOSE i \in 1..Len(entries) :
                      /\ entries[i] \in minvalue..maxvalue
                      /\ \A j \in 1..(i - 1) : entries[j] \notin minvalue..maxvalue] >>
    ELSE << >>

\* Python's "answer or default" for an answer that is None or a number.
OrElse(answer, default) ==
    IF answer = << >> \/ answer[1] = 0 THEN default ELSE answer[1]

\* ---------------------------------------------------------------- state
VARIABLES
    prev_states,           \* XInput.__prev_states
    event_queue,           \* XInput.__event_queue (a queue.Queue)
    registered_callbacks,  \* XInput.__registered_callbacks: the patterns, in order
    pc,                    \* statement of XInput.update() being executed
    new_states,            \* update()'s new_states: << >> is None
    handled,               \* events the latest update() call took from the queue
    invoked,               \* handler calls the latest update() call made
    images,                \* App._images
    images_maxlen,         \* App._images.maxlen
    deque_collect_limit,   \* App._deque_collect_limit
    next_id,               \* identity of the next ImageComposite to be created
    xinput_poll,           \* App._xinput_poll (the "LT/RT take?" checkbutton)
    latest_timer,          \* the after() call named by __xinput_polling_id is pending
    stale_timers,          \* pending after() calls no longer named by __xinput_polling_id
    xinput_poll_age,       \* time since XInput.update() was last called (the
                           \* latest after() call was made then), saturated at
                           \* FRAMETIME
    xinput_elapsed,        \* time() - App._xinput_last_time, saturated at MaxCooldown
    xinput_take_cooldown,  \* App._xinput_take_cooldown
    save_index,            \* Save all: position of its for loop in the history, 0
                           \* while the command is not running
    save_images,           \* Save all: the history as the for loop's iterator
                           \* found it (<< >> while the command is not running)
    last_op                \* the command most recently run; for the limit dialog
                           \* also whether its first entry was refused as too
                           \* small or too large, for a load whether it brought
                           \* several images

xinputVars == << prev_states, event_queue, registered_callbacks, pc, new_states,
                 handled, invoked >>
historyVars == << images, images_maxlen, deque_collect_limit, next_id >>
pollVars == << xinput_poll, latest_timer, stale_timers, xinput_poll_age >>
timeVars == << xinput_elapsed, xinput_take_cooldown >>
saveVars == << save_index, save_images >>
vars == << xinputVars, historyVars, pollVars, timeVars, last_op, saveVars >>

\* XInput.__init__ with the given bindings, then the rest of App.__init__.
InitWith(callbacks) ==
    /\ prev_states = DefaultStates
    /\ event_queue = << >>
    /\ registered_callbacks = callbacks
    /\ pc = "idle"
    /\ new_states = << >>
    /\ handled = << >>
    /\ invoked = << >>
    /\ images = << >>
    /\ images_maxlen = LIMIT
    /\ deque_collect_limit = LIMIT
    /\ next_id = 1
    /\ xinput_poll = FALSE
    /\ latest_timer = FALSE
    /\ stale_timers = 0
    /\ xinput_poll_age = FRAMETIME
    /\ xinput_elapsed = 0
    /\ xinput_take_cooldown = DELAY
    /\ save_index = 0
    /\ save_images = << >>
    /\ last_op = "init"

\* App.__init__
Init == InitWith(AppCallbacks)

\* --------------------------------------------------------- history commands
\* App.add_image: one new ImageComposite through deque_append_with_predicate.
add_image ==
    /\ images' = deque_append_with_predicate(images, images_maxlen,
                                             ImageComposite(next_id))
    /\ next_id' = next_id + 1
    /\ UNCHANGED << images_maxlen, deque_collect_limit >>

\* App.add_images: k new ImageComposites through deque_extend_with_predicate.
add_images(k) ==
    /\ images' = deque_extend_with_predicate(images, images_maxlen,
                    [i \in 1..k |-> ImageComposite(next_id + i - 1)])
    /\ next_id' = next_id + k
    /\ UNCHANGED << images_maxlen, deque_collect_limit >>

\* _reset_images as it would be if the new deque kept the old maxlen.
reset_images_OldMaxlen(iterable, limit) ==
    /\ images' = DequeNew(iterable, images_maxlen)
    /\ images_maxlen' = images_maxlen

\* App._reset_images(images)
reset_images(iterable, limit) ==
    /\ images' = DequeNew(iterable, limit)
    /\ images_maxlen' = limit

\* App._command_action_take (menu Action > Take)
CommandActionTake ==
    /\ pc = "idle"
    /\ save_index = 0
    /\ next_id <= MaxItems
    /\ add_image
    /\ last_op' = "take"
    /\ UNCHANGED << xinputVars, pollVars, timeVars, saveVars >>

\* App._command_action_grab / _command_action_load_files / _command_action_load_dir:
\* open_images yields k images, all go through add_images.
CommandActionLoad ==
    /\ pc = "idle"
    /\ save_index = 0
    /\ \E k \in 0..MaxBatch :
          /\ next_id + k - 1 <= MaxItems
          /\ add_images(k)
          /\ last_op' = IF k >= 2 THEN "load_many" ELSE "load"
    /\ UNCHANGED << xinputVars, pollVars, timeVars, saveVars >>

\* App._remove_collected_image (context menu > Remove of a shown image)
RemoveCollectedImage ==
    /\ pc = "idle"
    /\ save_index = 0
    /\ \E i \in 1..Len(images) : images' = DequeRemove(images, images[i])
    /\ last_op' = "remove"
    /\ UNCHANGED << images_maxlen, deque_collect_limit, next_id >>
    /\ UNCHANGED << xinputVars, pollVars, timeVars, saveVars >>

\* Context menu > Pin? of a shown image: the checkbutton flips image.pinnation.
TogglePin ==
    /\ pc = "idle"
    /\ save_index = 0
    /\ \E i \in 1..Len(images) :
          images' = [images EXCEPT ![i].pinned = ~images[i].pinned]
    /\ last_op' = "pin"
    /\ UNCHANGED << images_maxlen, deque_collect_limit, next_id >>
    /\ UNCHANGED << xinputVars, pollVars, timeVars, saveVars >>

\* App._command_view_rotate
CommandViewRotate ==
    /\ pc = "idle"
    /\ save_index = 0
    /\ images' = DequeRotate(images, 1)
    /\ last_op' = "rotate"
    /\ UNCHANGED << images_maxlen, deque_collect_limit, next_id >>
    /\ UNCHANGED << xinputVars, pollVars, timeVars, saveVars >>

\* App._command_view_rrotate
CommandViewRrotate ==
    /\ pc = "idle"
    /\ save_index = 0
    /\ images' = DequeRotate(images, -1)
    /\ last_op' = "rrotate"
    /\ UNCHANGED << images_maxlen, deque_collect_limit, next_id >>
    /\ UNCHANGED << xinputVars, pollVars, timeVars, saveVars >>

\* App._command_view_nrotate
CommandViewNrotate ==
    /\ pc = "idle"
    /\ save_index = 0
    /\ \E answer \in AskInteger(-MaxRotate, MaxRotate) :
          images' = DequeRotate(images, OrElse(answer, 0))
    /\ last_op' = "nrotate"
    /\ UNCHANGED << images_maxlen, deque_collect_limit, next_id >>
    /\ UNCHANGED << xinputVars, pollVars, timeVars, saveVars >>

\* App._command_view_remove_all
CommandViewRemoveAll ==
    /\ pc = "idle"
    /\ save_index = 0
    /\ reset_images(PinnedOnly(images), deque_collect_limit)
    /\ last_op' = "remove_all"
    /\ UNCHANGED << deque_collect_limit, next_id >>
    /\ UNCHANGED << xinputVars, pollVars, timeVars, saveVars >>

\* App._command_option_set_deque_limit.  last_op tells how the dialog went:
\* "set_deque_limit" when the first entry was accepted or the dialog was
\* cancelled at once, "..._retry" when an entry was accepted after a refused
\* one, "..._small" / "..._large" when the first entry was refused as too
\* small / too large and no entry was accepted.
CommandOptionSetDequeLimit ==
    /\ pc = "idle"
    /\ save_index = 0
    /\ \E entries \in LimitEntries :
          /\ deque_collect_limit' =
                OrElse(AskIntegerEntries(entries, MinLimit, DialogMaxLimit),
                       deque_collect_limit)
          /\ reset_images(images, deque_collect_limit')
          /\ last_op' = IF entries = << >> \/ entries[1] \in MinLimit..DialogMaxLimit
                        THEN "set_deque_limit"
                        ELSE IF \E i \in 1..Len(entries) :
                                   entries[i] \in MinLimit..DialogMaxLimit
                        THEN "set_deque_limit_retry"
                        ELSE IF entries[1] < MinLimit
                        THEN "set_deque_limit_small"
                        ELSE "set_deque_limit_large"
    /\ UNCHANGED next_id
    /\ UNCHANGED << xinputVars, pollVars, timeVars, saveVars >>

NextHistory ==
    \/ CommandActionTake
    \/ CommandActionLoad
    \/ RemoveCollectedImage
    \/ TogglePin
    \/ CommandViewRotate
    \/ CommandViewRrotate
    \/ CommandViewNrotate
    \/ CommandViewRemoveAll
    \/ CommandOptionSetDequeLimit

\* The history under the user's commands alone (polling never switched on).
SpecHistory == Init /\ [][NextHistory]_vars

\* ------------------------------------------------------------ XInput.update
\* Binding tables XInput(...) is constructed with: the application's own, and
\* two that use the wildcard patterns (every handler is the take-handler).
CallbackTables ==
    { AppCallbacks,
      << Event("any", "Any"), Event("press", "Any"), Event("release", "LeftTrigger") >>,
      << Event("any", "RightTrigger"), Event("press", "LeftTrigger") >> }

\* XInput construction with any of the binding tables.
InitXInput == \E callbacks \in CallbackTables : InitWith(callbacks)

\* TriggerEvents as it would be without the test that the magnitude changed:
\* level-triggered instead of edge-triggered.
TriggerEvents_Level(prev, new, key) ==
    IF new = FullTrigger THEN << Event("press", key) >>
    ELSE IF new = 0 THEN << Event("release", key) >>
    ELSE << >>

\* The events one trigger adds in XInput.__update_states (lines 126-130, 131-135).
TriggerEvents(prev, new, key) ==
    IF prev # new
    THEN IF new = FullTrigger THEN << Event("press", key) >>
         ELSE IF new = 0 THEN << Event("release", key) >>
         ELSE << >>
    ELSE << >>

\* UpdateStatesEvents as it would be without the packet-number test.
UpdateStatesEvents_NoPacketTest(prev, new) ==
    TriggerEvents(prev.LeftTrigger, new.LeftTrigger, "LeftTrigger")
    \o TriggerEvents(prev.RightTrigger, new.RightTrigger, "RightTrigger")

\* UpdateStatesEvents as it would be with the right trigger examined first.
UpdateStatesEvents_RightFirst(prev, new) ==
    IF prev.PacketNumber = new.PacketNumber THEN << >>
    ELSE TriggerEvents(prev.RightTrigger, new.RightTrigger, "RightTrigger")
         \o TriggerEvents(prev.LeftTrigger, new.LeftTrigger, "LeftTrigger")

\* The events XInput.__update_states puts on the queue for new, given prev.
UpdateStatesEvents(prev, new) ==
    IF prev.PacketNumber = new.PacketNumber THEN << >>
    ELSE TriggerEvents(prev.LeftTrigger, new.LeftTrigger, "LeftTrigger")
         \o TriggerEvents(prev.RightTrigger, new.RightTrigger, "RightTrigger")

\* UpdateStatesPrev as it would be without the assignment of line 136.
UpdateStatesPrev_Never(prev, new) == prev

\* The value of XInput.__prev_states after __update_states(new).
UpdateStatesPrev(prev, new) ==
    IF prev.PacketNumber = new.PacketNumber THEN prev ELSE new

\* The fields of App the take-handler reads and writes.
AppFields == [images |-> images, next_id |-> next_id, elapsed |-> xinput_elapsed]

\* The take-handler as it would be without line 596: a capture leaves
\* _xinput_last_time as it was.
xinput_ltrt_command_action_take_NoStamp(app, states) ==
    IF app.elapsed < xinput_take_cooldown THEN app
    ELSE IF states.LeftTrigger # FullTrigger \/ states.RightTrigger # FullTrigger
    THEN app
    ELSE [images |-> deque_append_with_predicate(app.images, images_maxlen,
                                                 ImageComposite(app.next_id)),
          next_id |-> app.next_id + 1,
          elapsed |-> app.elapsed]

\* The take-handler as it would be with "and" for "or" at line 592: it returns
\* only when neither trigger is at full travel.
xinput_ltrt_command_action_take_Either(app, states) ==
    IF app.elapsed < xinput_take_cooldown THEN app
    ELSE IF states.LeftTrigger # FullTrigger /\ states.RightTrigger # FullTrigger
    THEN app
    ELSE [images |-> deque_append_with_predicate(app.images, images_maxlen,
                                                 ImageComposite(app.next_id)),
          next_id |-> app.next_id + 1,
          elapsed |-> 0]

\* App._xinput_ltrt_command_action_take(states) applied to the fields app:
\* the fields afterwards. The capture is _command_action_take -> add_image.
xinput_ltrt_command_action_take(app, states) ==
    IF app.elapsed < xinput_take_cooldown THEN app
    ELSE IF states.LeftTrigger # FullTrigger \/ states.RightTrigger # FullTrigger
    THEN app
    ELSE [images |-> deque_append_with_predicate(app.images, images_maxlen,
                                                 ImageComposite(app.next_id)),
          next_id |-> app.next_id + 1,
          elapsed |-> 0]

\* RunCallbacks as it would be with a break after the first matching binding.
RunCallbacks_FirstMatch(callbacks, i, event, states, run) ==
    IF \E j \in i..Len(callbacks) : EventEq(callbacks[j], event)
    THEN LET first == CHOOSE j \in i..Len(callbacks) :
                         /\ EventEq(callbacks[j], event)
                         /\ \A k \in i..(j - 1) : ~EventEq(callbacks[k], event)
             after == xinput_ltrt_command_action_take(run.app, states)
         IN [app |-> after,
             calls |-> Append(run.calls,
                          [callback |-> first, event |-> event, states |-> states,
                           took |-> after.next_id # run.app.next_id])]
    ELSE run

\* The inner for loop of XInput.__handle_events for one event, from binding i
\* on: every binding equal to the event has its handler called with states.
\* run.app are App's fields, run.calls the calls made so far.
RECURSIVE RunCallbacks(_, _, _, _, _)
RunCallbacks(callbacks, i, event, states, run) ==
    IF i > Len(callbacks) THEN run
    ELSE IF EventEq(callbacks[i], event)
    THEN LET after == xinput_ltrt_command_action_take(run.app, states)
         IN RunCallbacks(callbacks, i + 1, event, states,
                [app |-> after,
                 calls |-> Append(run.calls,
                              [callback |-> i, event |-> event, states |-> states,
                               took |-> after.next_id # run.app.next_id])])
    ELSE RunCallbacks(callbacks, i + 1, event, states, run)

\* Queue.get_nowait(): the oldest event.
GetNowait(queue) == Head(queue)

\* root.after(FRAMETIME, __poll_for_xinput); __xinput_polling_id names the new
\* call, an older pending call keeps pending unnamed.
ScheduleTimer ==
    /\ stale_timers' = IF latest_timer THEN stale_timers + 1 ELSE stale_timers
    /\ latest_timer' = TRUE

\* poll_for_xinput as it would be without the test of _xinput_poll (lines
\* 669-671): it enters XInput.update() whatever the checkbutton says.
poll_for_xinput_NoSwitchTest(pending) ==
    /\ next_id <= MaxItems
    /\ latest_timer' = pending
    /\ xinput_poll_age' = 0
    /\ pc' = "poll"
    /\ handled' = << >>
    /\ invoked' = << >>

\* poll_for_xinput as it would be without the after_cancel of line 670.
poll_for_xinput_NoCancel(pending) ==
    IF ~xinput_poll'
    THEN /\ latest_timer' = pending
         /\ pc' = "idle"
         /\ UNCHANGED << handled, invoked, xinput_poll_age >>
    ELSE /\ next_id <= MaxItems
         /\ latest_timer' = pending
         /\ xinput_poll_age' = 0
         /\ pc' = "poll"
         /\ handled' = << >>
         /\ invoked' = << >>

\* Lines 669-672 of App.__poll_for_xinput, run after the checkbutton took the
\* value xinput_poll' and with pending telling whether the timer that
\* __xinput_polling_id names is pending: switched off, it cancels that timer
\* and returns; switched on, it enters XInput.update(), whose record of
\* events and calls starts empty.
poll_for_xinput(pending) ==
    IF ~xinput_poll'
    THEN /\ latest_timer' = FALSE
         /\ pc' = "idle"
         /\ UNCHANGED << handled, invoked, xinput_poll_age >>
    ELSE /\ next_id <= MaxItems
         /\ latest_timer' = pending
         /\ xinput_poll_age' = 0
         /\ pc' = "poll"
         /\ handled' = << >>
         /\ invoked' = << >>

\* Menu Option > "LT/RT take?": Tk flips _xinput_poll, then runs __poll_for_xinput.
ToggleXInputPoll ==
    /\ pc = "idle"
    /\ save_index = 0
    /\ xinput_poll' = ~xinput_poll
    /\ poll_for_xinput(latest_timer)
    /\ UNCHANGED << prev_states, event_queue, registered_callbacks, new_states,
                    stale_timers >>
    /\ UNCHANGED << historyVars, timeVars, last_op, saveVars >>

\* The pending after() calls: TRUE is the one __xinput_polling_id names.
PendingTimers ==
    (IF latest_timer THEN {TRUE} ELSE {}) \cup (IF stale_timers > 0 THEN {FALSE} ELSE {})

\* A pending after() call comes due: Tk runs __poll_for_xinput. The call
\* __xinput_polling_id names was made FRAMETIME before it comes due.
TimerFires ==
    /\ pc = "idle"
    /\ \E named \in PendingTimers :
          /\ named => xinput_poll_age = FRAMETIME
          /\ stale_timers' = IF named THEN stale_timers ELSE stale_timers - 1
          /\ xinput_poll' = xinput_poll
          /\ poll_for_xinput(IF named THEN FALSE ELSE latest_timer)
    /\ UNCHANGED << prev_states, event_queue, registered_callbacks, new_states >>
    /\ UNCHANGED << historyVars, timeVars, last_op, saveVars >>

\* Poll as it would be if a failed read reset the stored state to MappedStates().
Poll_ResetOnError ==
    /\ pc = "poll"
    /\ \E result \in {<< >>} \cup {<< s >> : s \in MappedStates} :
          /\ new_states' = result
          /\ pc' = IF result = << >> THEN "handle_events" ELSE "update_states"
          /\ prev_states' = IF result = << >> THEN DefaultStates ELSE prev_states
    /\ UNCHANGED << event_queue, registered_callbacks, handled, invoked >>
    /\ UNCHANGED << historyVars, pollVars, timeVars, last_op, saveVars >>

\* XInput.poll, called by update(): None when XInputGetState reports an error
\* (no controller), else the snapshot read_raw_states builds.
Poll ==
    /\ pc = "poll"
    /\ \E result \in {<< >>} \cup {<< s >> : s \in MappedStates} :
          /\ new_states' = result
          /\ pc' = IF result = << >> THEN "handle_events" ELSE "update_states"
    /\ UNCHANGED << prev_states, event_queue, registered_callbacks, handled, invoked >>
    /\ UNCHANGED << historyVars, pollVars, timeVars, last_op, saveVars >>

\* XInput.__update_states(new_states)
UpdateStates ==
    /\ pc = "update_states"
    /\ event_queue' = event_queue \o UpdateStatesEvents(prev_states, new_states[1])
    /\ prev_states' = UpdateStatesPrev(prev_states, new_states[1])
    /\ pc' = "handle_events"
    /\ UNCHANGED << registered_callbacks, new_states, handled, invoked >>
    /\ UNCHANGED << historyVars, pollVars, timeVars, last_op, saveVars >>

\* HandleEvent as it would be if the handlers were called with a fresh
\* MappedStates() instead of self.__prev_states.
HandleEvent_FreshStates ==
    /\ pc = "handle_events"
    /\ event_queue # << >>
    /\ LET event == GetNowait(event_queue)
           run == RunCallbacks(registered_callbacks, 1, event, DefaultStates,
                               [app |-> AppFields, calls |-> << >>])
       IN /\ event_queue' = Tail(event_queue)
          /\ handled' = Append(handled, event)
          /\ invoked' = invoked \o run.calls
          /\ images' = run.app.images
          /\ next_id' = run.app.next_id
          /\ xinput_elapsed' = run.app.elapsed
    /\ UNCHANGED << prev_states, registered_callbacks, pc, new_states >>
    /\ UNCHANGED << images_maxlen, deque_collect_limit, xinput_take_cooldown >>
    /\ UNCHANGED << pollVars, last_op, saveVars >>

\* One turn of the while loop of XInput.__handle_events: get_nowait() returns
\* an event and every matching binding's handler runs.
HandleEvent ==
    /\ pc = "handle_events"
    /\ event_queue # << >>
    /\ LET event == GetNowait(event_queue)
           run == RunCallbacks(registered_callbacks, 1, event, prev_states,
                               [app |-> AppFields, calls |-> << >>])
       IN /\ event_queue' = Tail(event_queue)
          /\ handled' = Append(handled, event)
          /\ invoked' = invoked \o run.calls
          /\ images' = run.app.images
          /\ next_id' = run.app.next_id
          /\ xinput_elapsed' = run.app.elapsed
    /\ UNCHANGED << prev_states, registered_callbacks, pc, new_states >>
    /\ UNCHANGED << images_maxlen, deque_collect_limit, xinput_take_cooldown >>
    /\ UNCHANGED << pollVars, last_op, saveVars >>

\* get_nowait() raises Empty: __handle_events and update() return, and
\* __poll_for_xinput (lines 673-675) schedules its next call.
HandleEventsEmpty ==
    /\ pc = "handle_events"
    /\ event_queue = << >>
    /\ ScheduleTimer
    /\ pc' = "idle"
    /\ new_states' = << >>
    /\ UNCHANGED << prev_states, event_queue, registered_callbacks, handled, invoked,
                    xinput_poll, xinput_poll_age >>
    /\ UNCHANGED << historyVars, timeVars, last_op, saveVars >>

\* The clock read by time() moves on by one unit while Tk is idle (a callback
\* takes far less than one unit).
AdvanceTime ==
    /\ pc = "idle"
    /\ ~(xinput_elapsed = MaxCooldown /\ xinput_poll_age = FRAMETIME)
    /\ xinput_elapsed' = IF xinput_elapsed < MaxCooldown
                         THEN xinput_elapsed + 1 ELSE xinput_elapsed
    /\ xinput_poll_age' = IF xinput_poll_age < FRAMETIME
                          THEN xinput_poll_age + 1 ELSE xinput_poll_age
    /\ UNCHANGED << xinput_poll, latest_timer, stale_timers >>
    /\ UNCHANGED << xinputVars, historyVars, xinput_take_cooldown, last_op, saveVars >>

\* App._command_option_set_xinput_take_cooldown
CommandOptionSetXinputTakeCooldown ==
    /\ pc = "idle"
    /\ save_index = 0
    /\ \E answer \in AskInteger(MinCooldown, MaxCooldown) :
          xinput_take_cooldown' = OrElse(answer, xinput_take_cooldown)
    /\ last_op' = "set_xinput_take_cooldown"
    /\ UNCHANGED << xinputVars, historyVars, pollVars, xinput_elapsed, saveVars >>

NextXInput ==
    \/ ToggleXInputPoll
    \/ TimerFires
    \/ Poll
    \/ UpdateStates
    \/ HandleEvent
    \/ HandleEventsEmpty
    \/ AdvanceTime
    \/ CommandOptionSetXinputTakeCooldown

\* ----------------------------------------------------------------- Save all
\* App._command_action_save_all up to the first self._root.update(): the
\* progress window takes the grab (no menu command runs until the window is
\* left), an empty history ends the command, otherwise the for loop's
\* iterator is created over self._images and gives its first item.
CommandActionSaveAll ==
    /\ pc = "idle"
    /\ save_index = 0
    /\ save_index' = IF Len(images) = 0 THEN 0 ELSE 1
    /\ save_images' = IF Len(images) = 0 THEN << >> ELSE images
    /\ last_op' = IF Len(images) = 0 THEN "save_all_nothing" ELSE "save_all"
    /\ UNCHANGED << xinputVars, historyVars, pollVars, timeVars >>

\* The deque iterator's test on next(): collections.deque counts its
\* mutations and the iterator raises RuntimeError when the count moved. Every
\* mutation possible here brings an object with a new identity, so the
\* contents tell whether the deque was mutated.
DequeMutated == images # save_images

\* One turn of the for loop of Save all from the return of self._root.update()
\* (line 494; timer callbacks that came due have run inside it) on: the item
\* in hand is saved, then the iterator is asked for the next item. It raises
\* RuntimeError when the deque was mutated (the command ends there), ends the
\* loop after the last item, or gives the next item and the loop is at its
\* self._root.update() again.
SaveAllItem ==
    /\ pc = "idle"
    /\ save_index > 0
    /\ save_index' = IF DequeMutated \/ save_index = Len(save_images)
                     THEN 0 ELSE save_index + 1
    /\ save_images' = IF save_index' = 0 THEN << >> ELSE save_images
    /\ last_op' = IF DequeMutated THEN "save_all_error"
                  ELSE IF save_index' = 0 THEN "save_all_done" ELSE "save_all"
    /\ UNCHANGED << xinputVars, historyVars, pollVars, timeVars >>

NextSaveAll ==
    \/ ToggleXInputPoll
    \/ TimerFires
    \/ Poll
    \/ UpdateStates
    \/ HandleEvent
    \/ HandleEventsEmpty
    \/ AdvanceTime
    \/ CommandOptionSetXinputTakeCooldown
    \/ CommandActionSaveAll
    \/ SaveAllItem

\* The controller subsystem with Save all: the history is filled by the
\* take-handler and saved while the polling timer keeps coming due.
SpecSaveAll == Init /\ [][NextSaveAll]_vars

\* The controller subsystem: polling, translation, dispatch and the captures
\* the take-handler makes, for every binding table.
SpecXInput == InitXInput /\ [][NextXInput]_vars

Next == NextHistory \/ NextXInput \/ CommandActionSaveAll \/ SaveAllItem

\* The whole application.
Spec == Init /\ [][Next]_vars

\* ================================================================== claims
\* Number of positions of seq that hold e.
Count(seq, e) == Cardinality({i \in 1..Len(seq) : seq[i] = e})

\* The events a step appends to the queue.
NewEvents == SubSeq(event_queue', Len(event_queue) + 1, Len(event_queue'))

\* The handler calls a step appends to the record of calls.
NewCalls == SubSeq(invoked', Len(invoked) + 1, Len(invoked'))

\* The step is a run of the menu command Take.
IsTakeStep == pc = "idle" /\ last_op' = "take" /\ next_id' = next_id + 1

\* The step is a run of the "Collect limit..." command.
IsResizeStep ==
    /\ pc = "idle"
    /\ last_op' \in {"set_deque_limit", "set_deque_limit_retry",
                     "set_deque_limit_small", "set_deque_limit_large"}

\* Position of the first unpinned image of the history before the step.
Victim ==
    CHOOSE i \in 1..Len(images) :
        /\ ~images[i].pinned
        /\ \A j \in 1..(i - 1) : images[j].pinned

\* ---- C1
\* C1: when __update_states is given a snapshot whose packet number equals the
\* stored previous state's, it puts no event on the queue, whatever the trigger
\* magnitudes of the two states are.
C1_StalePacketNoEvent ==
    [][ (/\ pc = "update_states"
         /\ new_states[1].PacketNumber = prev_states.PacketNumber)
        => event_queue' = event_queue ]_vars

\* __update_states has run on a snapshot with the stored packet number whose
\* two triggers both moved between the extremes, and the queue is empty.
C1_Witness ==
    /\ pc = "handle_events"
    /\ new_states # << >>
    /\ new_states[1].PacketNumber = prev_states.PacketNumber
    /\ prev_states.LeftTrigger = 0
    /\ new_states[1].LeftTrigger = FullTrigger
    /\ prev_states.RightTrigger = FullTrigger
    /\ new_states[1].RightTrigger = 0
    /\ event_queue = << >>
    /\ handled = << >>

\* ---- C2
\* What C2 says of one trigger that goes from magnitude prev to new.
C2_Axis(key, prev, new) ==
    /\ Count(NewEvents, Event("press", key))
          = IF prev # new /\ new = FullTrigger THEN 1 ELSE 0
    /\ Count(NewEvents, Event("release", key))
          = IF prev # new /\ new = 0 THEN 1 ELSE 0

\* C2: for a snapshot with a packet number different from the previous one, and
\* for each trigger on its own, a press is enqueued exactly when the magnitude
\* changed and is now 255, a release exactly when it changed and is now 0, and
\* nothing else is enqueued; a change of LeftTrigger alone from 0 to 255 yields
\* exactly press(LeftTrigger).
C2_TriggerEdges ==
    [][ (/\ pc = "update_states"
         /\ new_states[1].PacketNumber # prev_states.PacketNumber)
        => /\ SubSeq(event_queue', 1, Len(event_queue)) = event_queue
           /\ \A i \in 1..Len(NewEvents) :
                 /\ NewEvents[i].type \in {"press", "release"}
                 /\ NewEvents[i].key \in {"LeftTrigger", "RightTrigger"}
           /\ C2_Axis("LeftTrigger", prev_states.LeftTrigger,
                      new_states[1].LeftTrigger)
           /\ C2_Axis("RightTrigger", prev_states.RightTrigger,
                      new_states[1].RightTrigger)
           /\ (/\ prev_states.LeftTrigger = 0
               /\ new_states[1].LeftTrigger = FullTrigger
               /\ prev_states.RightTrigger = new_states[1].RightTrigger)
              => NewEvents = << Event("press", "LeftTrigger") >> ]_vars

\* __update_states has just taken over a fresh snapshot with the left trigger
\* at 255 and the right one part-way, and the queue holds press(LeftTrigger) alone.
C2_Witness ==
    /\ pc = "handle_events"
    /\ new_states = << prev_states >>
    /\ prev_states.LeftTrigger = FullTrigger
    /\ prev_states.RightTrigger = FullTrigger - 1
    /\ handled = << >>
    /\ event_queue = << Event("press", "LeftTrigger") >>

\* ---- C3
\* C3: a step of the dispatch loop adds a screenshot to the history only if the
\* state handed to the take-handler has both triggers at 255; a call with
\* either trigger below 255 takes nothing.
C3_TakeNeedsBothTriggers ==
    [][ pc = "handle_events"
        => /\ (images' # images \/ next_id' # next_id)
                => /\ prev_states.LeftTrigger = FullTrigger
                   /\ prev_states.RightTrigger = FullTrigger
           /\ \A i \in 1..Len(NewCalls) :
                 /\ NewCalls[i].states = prev_states
                 /\ NewCalls[i].took
                       => /\ NewCalls[i].states.LeftTrigger = FullTrigger
                          /\ NewCalls[i].states.RightTrigger = FullTrigger ]_vars

\* The take-handler, called for a press while both triggers are at 255, has put
\* a screenshot into the history.
C3_Witness ==
    /\ pc = "handle_events"
    /\ \E i \in 1..Len(invoked) :
          /\ invoked[i].took
          /\ invoked[i].event.type = "press"
          /\ invoked[i].states.LeftTrigger = FullTrigger
          /\ invoked[i].states.RightTrigger = FullTrigger
    /\ Len(images) > 0
    /\ images[Len(images)].id = next_id - 1

\* ---- C4
\* C4: in every state reached by Take, Grab/Load, Remove, Remove all, the
\* rotations, the limit dialog and pin toggles, the history holds at most
\* deque_collect_limit images.
C4_SizeAtMostLimit == Len(images) <= deque_collect_limit

\* The limit dialog has cut a longer history down to a limit that it now fills.
C4_Witness ==
    /\ last_op = "set_deque_limit"
    /\ deque_collect_limit < LIMIT
    /\ Len(images) = deque_collect_limit
    /\ next_id - 1 > deque_collect_limit
    /\ images[Len(images)].id = next_id - 1
    /\ \A i \in 1..Len(images) : images[i].id = next_id - 1 - Len(images) + i

\* ---- C5
\* C5: Take on a history below the limit appends the new image and removes
\* nothing; on a full history with an unpinned image it removes exactly the
\* first unpinned image of the current order and appends the new image at the
\* end, the other images keeping their order.
C5_InsertEvictsFirstUnpinned ==
    [][ IsTakeStep
        => /\ Len(images) < deque_collect_limit
                => images' = Append(images, [id |-> next_id, pinned |-> FALSE])
           /\ (/\ Len(images) = deque_collect_limit
               /\ \E i \in 1..Len(images) : ~images[i].pinned)
                => /\ Len(images') = Len(images)
                   /\ images'[Len(images')] = [id |-> next_id, pinned |-> FALSE]
                   /\ \A i \in 1..(Victim - 1) : images'[i] = images[i]
                   /\ \A i \in Victim..(Len(images) - 1) : images'[i] = images[i + 1]
       ]_vars

\* Take has run on a full history whose first image is pinned and out of
\* insertion order (the history was rotated): the new image is at the end and
\* an image created earlier is gone.
C5_Witness ==
    /\ last_op = "take"
    /\ Len(images) = deque_collect_limit
    /\ Len(images) >= 3
    /\ images[1].pinned
    /\ images[1].id > images[2].id
    /\ ~images[2].pinned
    /\ images[Len(images)] = [id |-> next_id - 1, pinned |-> FALSE]
    /\ next_id - 1 > Len(images)

\* ---- C6
\* C6: Take on a full history in which every image is pinned leaves the
\* history as it was (same images, order and pins): the new image is dropped
\* and the size still equals the limit.
C6_InsertAllPinnedDropped ==
    [][ (/\ IsTakeStep
         /\ Len(images) = deque_collect_limit
         /\ \A i \in 1..Len(images) : images[i].pinned)
        => /\ images' = images
           /\ deque_collect_limit' = deque_collect_limit
           /\ Len(images') = deque_collect_limit' ]_vars

\* Take has run and left a full history of pinned images only: an appended
\* image would be at the end, unpinned.
C6_Witness ==
    /\ last_op = "take"
    /\ Len(images) = deque_collect_limit
    /\ Len(images) >= 2
    /\ \A i \in 1..Len(images) : images[i].pinned
    /\ \A i \in 1..Len(images) : images[i].id < next_id - 1

\* ---- C7
\* C7: whatever command runs other than the single-image Remove (Take,
\* Grab/Load, Remove all, a rotation, the limit dialog, a pin toggle), an image
\* pinned when the command starts is still in the history when it ends.
C7_PinnedStay ==
    [][ (pc = "idle" /\ last_op' # "remove")
        => \A i \in 1..Len(images) :
              images[i].pinned
                 => \E j \in 1..Len(images') : images'[j].id = images[i].id ]_vars

\* ---- C8
\* The history the claim C8 describes: the earliest unpinned image is evicted
\* again and again until the size is at most limit or no unpinned image is left.
RECURSIVE EvictUnpinnedUntil(_, _)
EvictUnpinnedUntil(dq, limit) ==
    IF Len(dq) <= limit \/ \A i \in 1..Len(dq) : dq[i].pinned
    THEN dq
    ELSE LET v == CHOOSE i \in 1..Len(dq) :
                     /\ ~dq[i].pinned
                     /\ \A j \in 1..(i - 1) : dq[j].pinned
         IN EvictUnpinnedUntil(SubSeq(dq, 1, v - 1) \o SubSeq(dq, v + 1, Len(dq)),
                               limit)

\* C8: the limit dialog, given a limit below the current size, evicts the
\* earliest unpinned image repeatedly until the size is at most the limit or
\* only pinned images are left; it never removes a pinned image.
C8_ResizeEvictsUnpinnedOnly ==
    [][ (IsResizeStep /\ Len(images) > deque_collect_limit')
        => images' = EvictUnpinnedUntil(images, deque_collect_limit') ]_vars

\* ---- C9
\* Positions of the bindings whose pattern equals the event.
Matching(event) ==
    {i \in 1..Len(registered_callbacks) : EventEq(registered_callbacks[i], event)}

\* C9: a turn of the dispatch loop takes the oldest event off the queue and
\* calls, in registration order, the handler of every binding whose pattern
\* matches it and of no other binding; with the queue empty it calls nothing.
C9_DispatchFifoAllMatching ==
    [][ pc = "handle_events"
        => IF event_queue = << >>
           THEN /\ invoked' = invoked
                /\ handled' = handled
                /\ images' = images
                /\ next_id' = next_id
           ELSE /\ event_queue' = Tail(event_queue)
                /\ handled' = Append(handled, Head(event_queue))
                /\ SubSeq(invoked', 1, Len(invoked)) = invoked
                /\ {NewCalls[k].callback : k \in 1..Len(NewCalls)}
                      = Matching(Head(event_queue))
                /\ \A k \in 1..Len(NewCalls) : NewCalls[k].event = Head(event_queue)
                /\ \A k, l \in 1..Len(NewCalls) :
                      k < l => NewCalls[k].callback < NewCalls[l].callback ]_vars

\* Two events were dispatched in one update(); one of them called the handlers
\* of two bindings, in registration order, and a third binding that does not
\* match it was not called.
C9_Witness ==
    /\ Len(handled) = 2
    /\ event_queue = << >>
    /\ \E i, j \in 1..Len(invoked) :
          /\ i < j
          /\ invoked[i].event = invoked[j].event
          /\ invoked[i].event = handled[1]
          /\ invoked[i].callback < invoked[j].callback
          /\ \E b \in 1..Len(registered_callbacks) :
                /\ ~EventEq(registered_callbacks[b], invoked[i].event)
                /\ \A k \in 1..Len(invoked) :
                      invoked[k].event = invoked[i].event => invoked[k].callback # b

\* ---- C10
\* The events of the latest update() in the order they were detected: those
\* already handled, then those still queued.
Detected == handled \o event_queue

\* C10: every event is handled by the update() call that detected it, so no
\* event waits in the queue when the next poll starts, and the LeftTrigger
\* event of a snapshot is enqueued and handled before its RightTrigger event.
C10_DetectionOrder ==
    /\ pc \in {"idle", "poll", "update_states"} => event_queue = << >>
    /\ \A i, j \in 1..Len(Detected) :
          (Detected[i].key = "LeftTrigger" /\ Detected[j].key = "RightTrigger")
             => i < j
    /\ Len(Detected) <= 2

\* One snapshot gave an edge on both triggers; the LeftTrigger event has been
\* handled and the RightTrigger event is still queued.
C10_Witness ==
    /\ pc = "handle_events"
    /\ handled = << Event("press", "LeftTrigger") >>
    /\ event_queue = << Event("release", "RightTrigger") >>

\* ---- C11
\* The matching rule as C11 words it.
C11_Rule(a, b) ==
    /\ (a.type = b.type \/ "any" \in {a.type, b.type})
    /\ (a.key = b.key \/ "Any" \in {a.key, b.key})

\* The concrete events: a press or release of one trigger.
ConcreteEvents == {Event(t, k) : t \in {"press", "release"},
                                 k \in {"LeftTrigger", "RightTrigger"}}

\* C11: two events are equal exactly when their types are equal or one is
\* "any", and their keys are equal or one is "Any"; Event(any, Any) equals every
\* concrete event, Event(press, Any) equals press(LeftTrigger) and
\* press(RightTrigger) but not release(LeftTrigger); and the dispatch loop has
\* called, for each event it handled, exactly the bindings the rule selects.
C11_WildcardMatch ==
    /\ \A a, b \in {Event(t, k) : t \in EventTypes, k \in EventKeys} :
          EventEq(a, b) <=> C11_Rule(a, b)
    /\ \A e \in ConcreteEvents : EventEq(Event("any", "Any"), e)
    /\ EventEq(Event("press", "Any"), Event("press", "LeftTrigger"))
    /\ EventEq(Event("press", "Any"), Event("press", "RightTrigger"))
    /\ ~EventEq(Event("press", "Any"), Event("release", "LeftTrigger"))
    /\ \A h \in 1..Len(handled) :
          \A b \in 1..Len(registered_callbacks) :
             C11_Rule(registered_callbacks[b], handled[h])
                <=> \E c \in 1..Len(invoked) :
                       invoked[c].callback = b /\ invoked[c].event = handled[h]

\* An update() dispatched release(LeftTrigger) and press(RightTrigger) to a
\* table holding (any, Any) and (press, Any): the first binding was called for
\* both events, the second for the press only.
C11_Witness ==
    /\ handled = << Event("release", "LeftTrigger"), Event("press", "RightTrigger") >>
    /\ Len(registered_callbacks) >= 2
    /\ registered_callbacks[1] = Event("any", "Any")
    /\ registered_callbacks[2] = Event("press", "Any")
    /\ \E c \in 1..Len(invoked) :
          invoked[c].callback = 1 /\ invoked[c].event = handled[1]
    /\ \E c \in 1..Len(invoked) :
          invoked[c].callback = 2 /\ invoked[c].event = handled[2]
    /\ \A c \in 1..Len(invoked) :
          invoked[c].callback = 2 => invoked[c].event # handled[1]

\* ---- C12
\* C12 as stated: after every run of __update_states the stored previous state
\* equals the snapshot it was given, also when the snapshot was stale.
C12_PrevIsSnapshot ==
    [][ pc = "update_states" => prev_states' = new_states[1] ]_vars

\* C12, amended: after every run of __update_states the stored previous state
\* has the snapshot's packet number; it equals the snapshot when the packet
\* numbers differed, whether or not an event was emitted, and it is left as it
\* was when the snapshot was stale.
C12_PrevIsSnapshotUnlessStale ==
    [][ pc = "update_states"
        => /\ prev_states'.PacketNumber = new_states[1].PacketNumber
           /\ new_states[1].PacketNumber # prev_states.PacketNumber
                 => prev_states' = new_states[1]
           /\ new_states[1].PacketNumber = prev_states.PacketNumber
                 => prev_states' = prev_states ]_vars

\* __update_states has taken over a snapshot with part-way triggers, for which
\* it emitted no event, and had taken over another snapshot before.
C12_Witness ==
    /\ pc = "handle_events"
    /\ new_states = << prev_states >>
    /\ prev_states.PacketNumber = 0
    /\ prev_states.LeftTrigger = 1
    /\ prev_states.RightTrigger = FullTrigger - 1
    /\ event_queue = << >>
    /\ handled = << >>

\* ---- C13
\* C13: when poll() finds no controller, update() skips __update_states: the
\* tick enqueues no event, calls no handler, leaves the stored previous state
\* and the history as they were, and ends by scheduling the next tick.
C13_UnavailableTick ==
    [][ /\ (pc = "poll" /\ new_states' = << >>)
           => /\ pc' = "handle_events"
              /\ event_queue' = << >>
              /\ prev_states' = prev_states
              /\ invoked' = << >> /\ handled' = << >>
        /\ (pc = "handle_events" /\ new_states = << >>)
           => /\ event_queue = << >>
              /\ pc' = "idle"
              /\ prev_states' = prev_states
              /\ invoked' = << >> /\ handled' = << >>
              /\ images' = images /\ next_id' = next_id
              /\ xinput_poll' /\ latest_timer' ]_vars

\* poll() has just found no controller: update() is at __handle_events with
\* no snapshot, the queue is empty, nothing was handled, and the state an
\* earlier tick stored (both triggers at 255) is still there.
C13_Witness ==
    /\ pc = "handle_events"
    /\ new_states = << >>
    /\ event_queue = << >>
    /\ handled = << >> /\ invoked = << >>
    /\ xinput_poll
    /\ prev_states.PacketNumber = 1
    /\ prev_states.LeftTrigger = FullTrigger
    /\ prev_states.RightTrigger = FullTrigger

\* ---- C14
\* One insert as the contract words it: below the limit the item is appended;
\* at the limit the first unpinned item leaves and the item is appended; at
\* the limit with every item pinned the item is dropped.
InsertOne(history, limit, item) ==
    IF Len(history) < limit THEN Append(history, item)
    ELSE IF \A i \in 1..Len(history) : history[i].pinned THEN history
    ELSE LET v == CHOOSE i \in 1..Len(history) :
                      /\ ~history[i].pinned
                      /\ \A j \in 1..(i - 1) : history[j].pinned
         IN  Append(SubSeq(history, 1, v - 1) \o SubSeq(history, v + 1, Len(history)),
                    item)

\* The inserts of a batch applied one after another, left to right.
RECURSIVE InsertEach(_, _, _)
InsertEach(history, limit, items) ==
    IF items = << >> THEN history
    ELSE InsertEach(InsertOne(history, limit, Head(items)), limit, Tail(items))

\* A step of add_images (grab, load files, load directory).
IsLoadStep == pc = "idle" /\ last_op' \in {"load", "load_many"} /\ next_id' >= next_id

\* The batch a load step inserted: the items numbered next_id .. next_id' - 1.
LoadedBatch == [i \in 1..(next_id' - next_id) |-> [id |-> next_id + i - 1, pinned |-> FALSE]]

\* C14: add_images leaves the history that inserting the items of the batch
\* one by one, in the given order, would leave; each eviction victim is chosen
\* from the history as it is at that insert.
C14_InsertManyIsSequential ==
    [][IsLoadStep => images' = InsertEach(images, deque_collect_limit, LoadedBatch)]_vars

\* A batch of two was loaded into a history of limit 1: the first item of the
\* batch was evicted by the second, which is the only item left.
C14_Witness ==
    /\ last_op = "load_many"
    /\ deque_collect_limit = 1
    /\ next_id >= 3
    /\ images = << [id |-> next_id - 1, pinned |-> FALSE] >>

\* ---- C15
\* The next n objects the program would create, in creation order.
FreshItems(n) == [i \in 1..n |-> ImageComposite(next_id + i - 1)]

\* C15: for the limit the history has now (when it is a small one), limit + 1
\* new unpinned items inserted one after another into an empty history of
\* that limit leave exactly the last limit of them, in insertion order: the
\* first one inserted is the one evicted.
C15_OverfillKeepsLastLimit ==
    deque_collect_limit <= MaxLimit =>
        LET filled == deque_extend_with_predicate(<< >>, deque_collect_limit,
                                                  FreshItems(deque_collect_limit + 1))
        IN  /\ Len(filled) = deque_collect_limit
            /\ filled = Tail(FreshItems(deque_collect_limit + 1))

\* The run itself did it: with limit 2 the third capture in a row has just
\* been taken and the history holds items 2 and 3, item 1 is gone.
C15_Witness ==
    /\ last_op = "take"
    /\ deque_collect_limit = 2
    /\ next_id = 4
    /\ images = << ImageComposite(2), ImageComposite(3) >>

\* ---- C16
\* A step of _command_view_remove_all.
IsRemoveAllStep == pc = "idle" /\ last_op' = "remove_all"

\* Positions of the pinned items of a history.
PinnedPositions(history) == {i \in 1..Len(history) : history[i].pinned}

\* C16: Remove all leaves exactly the pinned items of the history, as many as
\* were pinned and in the order they had, and leaves the limit as it was.
C16_RemoveAllKeepsPinned ==
    [][IsRemoveAllStep =>
          /\ images' = SelectSeq(images, LAMBDA image : image.pinned)
          /\ Len(images') = Cardinality(PinnedPositions(images))
          /\ \A i \in 1..Len(images') : images'[i].pinned
          /\ deque_collect_limit' = deque_collect_limit
          /\ images_maxlen' = deque_collect_limit]_vars

\* Remove all has run on a rotated history: two pinned items are left, the
\* newer one still in front of the older one, and a third item created
\* between them is gone.
C16_Witness ==
    /\ last_op = "remove_all"
    /\ Len(images) = 2
    /\ images[1].pinned /\ images[2].pinned
    /\ images[1].id = 3 /\ images[2].id = 1
    /\ next_id = 4
    /\ deque_collect_limit = 3

\* ---- C17
\* Rotation counts tried on every history: beyond the largest history either
\* way, so that counts wrap around.
RotateCounts == (0 - (MaxItems + MaxRotate))..(MaxItems + MaxRotate)

\* C17: on every history the program can hold (the empty one included),
\* rotating by k and then by -k gives the history back, for every k.
C17_RotateThereAndBack ==
    \A k \in RotateCounts : DequeRotate(DequeRotate(images, k), 0 - k) = images

\* "Rotate by..." has just rotated a history of three, one of them pinned,
\* out of its insertion order.
C17_Witness ==
    /\ last_op = "nrotate"
    /\ Len(images) = 3
    /\ images[1].id = 2 /\ images[2].id = 3 /\ images[3].id = 1
    /\ images[2].pinned

\* ---- C18
\* One circular step to the right: the last item comes to the front.
ShiftRightOnce(history) ==
    IF Len(history) = 0 THEN history
    ELSE << history[Len(history)] >> \o SubSeq(history, 1, Len(history) - 1)

\* One circular step to the left: the first item goes to the back.
ShiftLeftOnce(history) ==
    IF Len(history) = 0 THEN history ELSE Append(Tail(history), Head(history))

\* The circular shift by n: n steps to the right, -n steps to the left.
RECURSIVE Shift(_, _)
Shift(history, n) ==
    IF n = 0 THEN history
    ELSE IF n > 0 THEN Shift(ShiftRightOnce(history), n - 1)
    ELSE Shift(ShiftLeftOnce(history), n + 1)

\* The items of a history (identity and pinned flag).
Items(history) == {history[i] : i \in 1..Len(history)}

\* C18: Rotate, Reverse rotate and "Rotate by..." shift the history circularly
\* (by 1, by -1, by the number answered) and change nothing else: the same
\* items with the same pinned flags, the same size, the same limit; a history
\* of at most one item is left as it is.
C18_RotateOnlyReorders ==
    [][(pc = "idle" /\ last_op' \in {"rotate", "rrotate", "nrotate"}) =>
          /\ last_op' = "rotate" => images' = Shift(images, 1)
          /\ last_op' = "rrotate" => images' = Shift(images, 0 - 1)
          /\ last_op' = "nrotate" =>
                \E n \in (0 - MaxRotate)..MaxRotate : images' = Shift(images, n)
          /\ Items(images') = Items(images)
          /\ Len(images') = Len(images)
          /\ deque_collect_limit' = deque_collect_limit
          /\ images_maxlen' = images_maxlen
          /\ next_id' = next_id
          /\ Len(images) <= 1 => images' = images]_vars

\* Reverse rotate has just turned a history of three (the oldest pinned) one
\* step to the left: item 1 went from the front to the back.
C18_Witness ==
    /\ last_op = "rrotate"
    /\ Len(images) = 3
    /\ images[1].id = 2 /\ images[2].id = 3 /\ images[3].id = 1
    /\ images[3].pinned /\ ~images[1].pinned
    /\ deque_collect_limit = 3

\* ---- C19
\* A resize below the current size of a history whose items are all unpinned.
IsShrinkOfUnpinned ==
    /\ IsResizeStep
    /\ deque_collect_limit' < Len(images)
    /\ \A i \in 1..Len(images) : ~images[i].pinned

\* Every item the step kept was created after every item it dropped.
KeptAreNewest ==
    \A kept \in Items(images') : \A dropped \in Items(images) \ Items(images') :
        kept.id > dropped.id

\* The history is in insertion order (it was not rotated out of it).
InInsertionOrder(history) ==
    \A i \in 1..Len(history) : \A j \in (i + 1)..Len(history) : history[i].id < history[j].id

\* C19 as stated: such a resize leaves exactly newLimit items and they are the
\* newLimit most recently inserted ones, rotated or not.
C19_ResizeKeepsNewest ==
    [][IsShrinkOfUnpinned => (Len(images') = deque_collect_limit' /\ KeptAreNewest)]_vars

\* C19, amended: such a resize leaves exactly newLimit items, the last
\* newLimit of the history in its current order; they are the most recently
\* inserted ones when the history is in insertion order.
C19_ResizeKeepsLastInOrder ==
    [][IsShrinkOfUnpinned =>
          /\ Len(images') = deque_collect_limit'
          /\ images' = SubSeq(images, Len(images) - deque_collect_limit' + 1, Len(images))
          /\ InInsertionOrder(images) => KeptAreNewest]_vars

\* The limit was set to 2 on a rotated, all-unpinned history of three: items
\* 3 and 1 are left, item 2 (newer than item 1) is gone.
C19_Witness ==
    /\ last_op = "set_deque_limit"
    /\ deque_collect_limit = 2
    /\ next_id = 4
    /\ images = << ImageComposite(3), ImageComposite(1) >>

\* ---- C20
\* C20 as stated: the limit is always in 1..256, and a request outside the
\* range sets the limit to the nearest end of the range.
C20_LimitClamped ==
    [][IsResizeStep =>
          /\ deque_collect_limit' \in MinLimit..DialogMaxLimit
          /\ last_op' = "set_deque_limit_small" => deque_collect_limit' = MinLimit
          /\ last_op' = "set_deque_limit_large" => deque_collect_limit' = DialogMaxLimit]_vars

\* C20, amended: the limit is in 1..256 in every state; an entry outside the
\* range is refused by the dialog, and when no entry is accepted the limit
\* stays what it was; an accepted entry is a typed value within the range.
C20_LimitRefusedOutOfRange ==
    /\ [](deque_collect_limit \in MinLimit..DialogMaxLimit)
    /\ [][IsResizeStep =>
             /\ last_op' \in {"set_deque_limit_small", "set_deque_limit_large"}
                   => deque_collect_limit' = deque_collect_limit
             /\ deque_collect_limit' # deque_collect_limit
                   => deque_collect_limit' \in TypedLimits \cap (MinLimit..DialogMaxLimit)
             /\ images_maxlen' = deque_collect_limit']_vars

\* With the limit at 2, an entry above 256 was refused and no entry was
\* accepted: the limit is still 2, not 256.
C20_Witness ==
    /\ last_op = "set_deque_limit_large"
    /\ deque_collect_limit = 2
    /\ images_maxlen = 2
    /\ Len(images) = 2

\* ---- C21
\* C21: while polling is switched off nothing of update() runs: no poll, no
\* translation, no handler call, no capture, and no event waits in the queue
\* (update() drains the queue before it returns, so switching off finds it
\* empty); an update() after switching on again starts with an empty queue
\* and an empty record, so it dispatches nothing an earlier update() detected.
C21_PollingOffIsQuiet ==
    /\ [](~xinput_poll => (pc = "idle" /\ event_queue = << >> /\ ~latest_timer))
    /\ [][(~xinput_poll /\ ~xinput_poll')
             => UNCHANGED << prev_states, event_queue, new_states, handled, invoked,
                             images, next_id, pc >>]_vars
    /\ [][(pc = "idle" /\ pc' = "poll")
             => (event_queue = << >> /\ handled' = << >> /\ invoked' = << >>)]_vars

\* Polling was switched off after an update() that dispatched both presses
\* and made a capture: no timer is pending and the queue is empty.
C21_Witness ==
    /\ ~xinput_poll
    /\ pc = "idle"
    /\ ~latest_timer
    /\ Len(handled) = 2
    /\ next_id = 2
    /\ event_queue = << >>

\* ---- C22
\* C22: the queue is empty when __update_states runs, so every queued event
\* comes from the translation of the snapshot update() has just polled; that
\* snapshot is the stored state while its events are dispatched, every
\* handler call of the dispatch receives it, and the queue is drained before
\* update() returns, that is before a later snapshot can be stored.
C22_HandlerGetsItsSnapshot ==
    /\ [][pc = "update_states"
            => /\ event_queue = << >>
               /\ event_queue' # << >> => prev_states' = new_states[1]]_vars
    /\ [][(pc = "handle_events" /\ event_queue # << >>)
            => /\ new_states # << >>
               /\ prev_states = new_states[1]
               /\ prev_states' = prev_states /\ new_states' = new_states
               /\ \A i \in 1..Len(NewCalls) :
                     /\ NewCalls[i].states = new_states[1]
                     /\ NewCalls[i].event = Head(event_queue)]_vars
    /\ [](pc \in {"idle", "poll"} => event_queue = << >>)

\* A handler call for press(RightTrigger) has received the snapshot with
\* packet number 2 that update() polled and is still dispatching, not the
\* earlier snapshot.
C22_Witness ==
    /\ pc = "handle_events"
    /\ Len(invoked) >= 1
    /\ invoked[1].event = Event("press", "RightTrigger")
    /\ invoked[1].states.PacketNumber = 2
    /\ invoked[1].states.LeftTrigger = 1
    /\ new_states = << invoked[1].states >>
    /\ registered_callbacks = AppCallbacks

\* ---- C23
\* The handler calls of the latest update() that made a capture.
Captures == {i \in 1..Len(invoked) : invoked[i].took}

\* C23: a capture by the take-handler happens only when at least the
\* configured cooldown has passed since the previous such capture (since
\* start-up for the first one) and restarts the cooldown; so one turn of the
\* dispatch loop makes at most one capture, and so does one update(), also
\* when its snapshot dispatches press(LeftTrigger) and press(RightTrigger).
C23_CooldownBetweenCaptures ==
    /\ [][(pc = "handle_events" /\ next_id' # next_id)
            => /\ xinput_elapsed >= xinput_take_cooldown
               /\ xinput_elapsed' = 0
               /\ next_id' = next_id + 1]_vars
    /\ [](Cardinality(Captures) <= 1)
    /\ [](xinput_take_cooldown >= MinCooldown)

\* One snapshot with both triggers at 255 has dispatched both presses to the
\* take-handler: the first call made the capture, the second found the
\* cooldown running and made none.
C23_Witness ==
    /\ registered_callbacks = AppCallbacks
    /\ handled = << Event("press", "LeftTrigger"), Event("press", "RightTrigger") >>
    /\ Len(invoked) = 2
    /\ invoked[1].took /\ ~invoked[2].took
    /\ invoked[2].states.LeftTrigger = FullTrigger
    /\ invoked[2].states.RightTrigger = FullTrigger
    /\ next_id = 2
    /\ xinput_elapsed = 0

\* ---- C24
\* C24: while the for loop of Save all is running, the history is what the
\* loop's iterator found when it was created.
C24_HistoryStableDuringSaveAll ==
    save_index > 0 => images = save_images

\* ---- C25
\* The state the translator holds before it has stored any snapshot.
StartStates == [PacketNumber |-> 0, LeftTrigger |-> 0, RightTrigger |-> 0]

\* What the claim expects of a snapshot translated against StartStates.
FirstSnapshotEvents(snapshot) ==
    IF snapshot.PacketNumber = 0 THEN << >>
    ELSE (IF snapshot.LeftTrigger = FullTrigger
          THEN << Event("press", "LeftTrigger") >> ELSE << >>)
         \o (IF snapshot.RightTrigger = FullTrigger
             THEN << Event("press", "RightTrigger") >> ELSE << >>)

\* C25: the translator starts with packet number 0 and both triggers at 0;
\* against that state a snapshot with packet number 0 enqueues nothing
\* whatever its triggers, and a snapshot with another packet number enqueues
\* a press for each trigger at 255, left first, and nothing else (no release
\* for a trigger at 0).
C25_FirstSnapshot ==
    /\ prev_states = StartStates
    /\ [][(pc = "update_states" /\ prev_states = StartStates)
            => /\ event_queue' = FirstSnapshotEvents(new_states[1])
               /\ \A i \in 1..Len(event_queue') : event_queue'[i].type # "release"
               /\ new_states[1].PacketNumber = 0 => prev_states' = StartStates]_vars

\* No time has passed since start-up and no capture was made: a snapshot with
\* packet number 1, the left trigger at 255 and the right trigger at 0 has
\* been translated into press(LeftTrigger) alone.
C25_Witness ==
    /\ pc = "handle_events"
    /\ new_states = << [PacketNumber |-> 1, LeftTrigger |-> FullTrigger, RightTrigger |-> 0] >>
    /\ event_queue = << Event("press", "LeftTrigger") >>
    /\ handled = << >>
    /\ xinput_elapsed = 0
    /\ next_id = 1

\* ---- C26
\* At most one call of __poll_for_xinput is pending, and between callbacks one
\* is pending exactly when polling is switched on; while update() runs,
\* polling is on and the next call is not yet scheduled.
OneTimerWhenOn ==
    /\ stale_timers = 0
    /\ pc = "idle" => (latest_timer <=> xinput_poll)
    /\ pc # "idle" => (xinput_poll /\ ~latest_timer)

\* The step starts a call of XInput.update().
IsPollStart == pc = "idle" /\ pc' = "poll"

\* C26 as stated: one timer when polling is on, none when it is off, and
\* every update() starts a full timer interval or more after the one before.
C26_OnePollPerInterval ==
    /\ []OneTimerWhenOn
    /\ [][IsPollStart => xinput_poll_age = FRAMETIME]_vars

\* C26, amended: one timer when polling is on, none when it is off; an
\* update() started by the timer comes a full timer interval or more after
\* the one before, an update() started by switching polling on comes at once.
C26_OneTimerPending ==
    /\ []OneTimerWhenOn
    /\ [][IsPollStart => (xinput_poll_age = FRAMETIME \/ ~xinput_poll)]_vars
    /\ [][(IsPollStart /\ xinput_poll) => (latest_timer /\ ~latest_timer')]_vars

\* No time has passed since start-up, an update() has already stored a
\* snapshot with packet number 1, and polling was switched off and on again:
\* update() is running a second time within the same timer interval.
C26_Witness ==
    /\ pc = "poll"
    /\ xinput_poll
    /\ xinput_poll_age = 0
    /\ xinput_elapsed = 0
    /\ prev_states.PacketNumber = 1
    /\ ~latest_timer
    /\ stale_timers = 0
====
